---- MODULE Spec2Model ----
\* Model of caffe2::Workspace (caffe2/core/workspace.cc): the blob store with
\* read fallback to a parent workspace, the net registry, and the lazily
\* constructed thread pool.
EXTENDS Integers, Sequences, FiniteSets, TLC

\* ------------------------------------------------------------------ bounds
NumWs == 3            \* workspaces on the parent chain
NumBlobNames == 2     \* blob names 1..NumBlobNames
MaxBlobs == 3         \* Blob objects ever allocated (new Blob())
NumNetNames == 1      \* net names 1..NumNetNames, next to the empty name 0
MaxNets == 2          \* NetBase objects ever allocated
NumThreads == 3       \* threads calling GetThreadPool
MaxHw == 9            \* largest std::thread::hardware_concurrency() tried
MaxPools == 2         \* ThreadPool objects ever allocated
MaxAllocs == 2        \* blobs plus nets allocated when both stores are exercised
MaxEntries == 2       \* names registered at once when both stores are exercised
MaxCap == 2           \* largest capacity in bytes a blob reports

Workspaces == 1..NumWs
BlobNames == 1..NumBlobNames
BlobIds == 1..MaxBlobs
NetNames == 0..NumNetNames
NetIds == 1..MaxNets
Threads == 1..NumThreads

NullBlob == 0 - 1
NullNet == 0 - 1
NoWs == 0 - 1
EmptyName == 0

VARIABLES
  blob_map_,    \* [Workspaces -> [subset of BlobNames -> BlobIds]]
  blob_data,    \* contents of each Blob object: 0 is the empty blob
  nextBlob,     \* number of Blob objects allocated so far
  net_map_,     \* [Workspaces -> [subset of NetNames -> NetIds or NullNet]]
  net_alive,    \* NetBase objects constructed and not yet destroyed
  nextNet,      \* number of NetBase objects allocated so far
  pc,           \* position of the CreateNet call in progress, or "idle"
  cn,           \* locals of the CreateNet call in progress
  thread_pool_, \* the pool owned by the workspace, 0 before construction
  mutex,        \* holder of thread_pool_creation_mutex_, 0 when free
  tpc,          \* position of each thread inside GetThreadPool
  tret,         \* what GetThreadPool last returned to each thread
  tsize,        \* the thread count each constructed pool was built with
  hw,           \* std::thread::hardware_concurrency()
  applyCap,     \* the platform's threadpool cap flag
  call          \* the last completed call and what it returned

blobVars == <<blob_map_, blob_data, nextBlob>>
netVars == <<net_map_, net_alive, nextNet, pc, cn>>
poolVars == <<thread_pool_, mutex, tpc, tret, tsize, hw, applyCap>>
vars == <<blob_map_, blob_data, nextBlob, net_map_, net_alive,
          nextNet, pc, cn, thread_pool_, mutex, tpc, tret, tsize, hw,
          applyCap, call>>

\* The parent of workspace w: the chain 1 <- 2 <- ... <- NumWs, 1 the root.
shared_(w) == IF w = 1 THEN NoWs ELSE w - 1

NoCall ==
  [op |-> "none", ws |-> NoWs, name |-> 0, ptr |-> 0 - 1, ok |-> FALSE,
   thrown |-> "", made |-> "", ran |-> 0 - 1, names |-> <<>>, old |-> 0 - 1]

\* --------------------------------------------------------------- blob store
\* The maps are not synchronized: callers serialize their calls, so no other
\* call starts while a CreateNet call is between its steps (pc = "idle").
Erase(m, k) == [x \in (DOMAIN m) \ {k} |-> m[x]]
Put(m, k, v) == [x \in (DOMAIN m) \cup {k} |-> IF x = k THEN v ELSE m[x]]

RECURSIVE HasBlob(_, _, _)
HasBlob(bm, w, name) ==
  \/ name \in DOMAIN bm[w]
  \/ (shared_(w) # NoWs /\ HasBlob(bm, shared_(w), name))

\* GetBlob that consults only the direct parent's own map.
GetBlob_OneLevel(bm, w, name) ==
  IF name \in DOMAIN bm[w]
  THEN bm[w][name]
  ELSE IF shared_(w) # NoWs /\ name \in DOMAIN bm[shared_(w)]
       THEN bm[shared_(w)][name]
       ELSE NullBlob

RECURSIVE GetBlob(_, _, _)
GetBlob(bm, w, name) ==
  IF name \in DOMAIN bm[w]
  THEN bm[w][name]
  ELSE IF shared_(w) # NoWs /\ HasBlob(bm, shared_(w), name)
       THEN GetBlob(bm, shared_(w), name)
       ELSE NullBlob

\* The keys of a map in iteration order (std::map: ascending).
RECURSIVE KeysFrom(_, _, _)
KeysFrom(m, k, hi) ==
  IF k > hi THEN <<>>
  ELSE (IF k \in DOMAIN m THEN <<k>> ELSE <<>>) \o KeysFrom(m, k + 1, hi)

LocalBlobs(bm, w) == KeysFrom(bm[w], 1, NumBlobNames)

\* Blobs that lists the workspace's names and its direct parent's only.
Blobs_OneLevel(bm, w) ==
  LocalBlobs(bm, w) \o (IF shared_(w) # NoWs THEN LocalBlobs(bm, shared_(w)) ELSE <<>>)

\* Blobs that leaves out the parent's names the workspace already lists.
RECURSIVE Blobs_Dedup(_, _)
Blobs_Dedup(bm, w) ==
  LocalBlobs(bm, w) \o
    (IF shared_(w) # NoWs
     THEN SelectSeq(Blobs_Dedup(bm, shared_(w)), LAMBDA n : n \notin DOMAIN bm[w])
     ELSE <<>>)

RECURSIVE Blobs(_, _)
Blobs(bm, w) ==
  LocalBlobs(bm, w) \o (IF shared_(w) # NoWs THEN Blobs(bm, shared_(w)) ELSE <<>>)

\* CreateBlob that assigns a new Blob without asking HasBlob first.
CreateBlob_Overwrite(w, name) ==
  /\ pc = "idle"
  /\ nextBlob < MaxBlobs
  /\ nextBlob' = nextBlob + 1
  /\ blob_map_' = [blob_map_ EXCEPT ![w] = Put(@, name, nextBlob + 1)]
  /\ blob_data' = IF name \in DOMAIN blob_map_[w]
                  THEN [blob_data EXCEPT ![blob_map_[w][name]] = 0]
                  ELSE blob_data
  /\ call' = [NoCall EXCEPT !.op = "CreateBlob", !.ws = w, !.name = name,
                            !.ok = ~HasBlob(blob_map_, w, name),
                            !.ptr = GetBlob(blob_map_', w, name)]
  /\ UNCHANGED <<netVars, poolVars>>

\* CreateBlob that looks for the name in the workspace's own map only.
CreateBlob_LocalCheck(w, name) ==
  /\ pc = "idle"
  /\ IF name \in DOMAIN blob_map_[w]
     THEN UNCHANGED <<blob_map_, nextBlob>>
     ELSE /\ nextBlob < MaxBlobs
          /\ nextBlob' = nextBlob + 1
          /\ blob_map_' = [blob_map_ EXCEPT ![w] = Put(@, name, nextBlob + 1)]
  /\ UNCHANGED blob_data
  /\ call' = [NoCall EXCEPT !.op = "CreateBlob", !.ws = w, !.name = name,
                            !.ok = ~(name \in DOMAIN blob_map_[w]),
                            !.ptr = GetBlob(blob_map_', w, name)]
  /\ UNCHANGED <<netVars, poolVars>>

CreateBlob(w, name) ==
  /\ pc = "idle"
  /\ IF HasBlob(blob_map_, w, name)
     THEN UNCHANGED <<blob_map_, nextBlob>>
     ELSE /\ nextBlob < MaxBlobs
          /\ nextBlob' = nextBlob + 1
          /\ blob_map_' = [blob_map_ EXCEPT ![w] = Put(@, name, nextBlob + 1)]
  /\ UNCHANGED blob_data
  /\ call' = [NoCall EXCEPT !.op = "CreateBlob", !.ws = w, !.name = name,
                            !.ok = ~HasBlob(blob_map_, w, name),
                            !.ptr = GetBlob(blob_map_', w, name)]
  /\ UNCHANGED <<netVars, poolVars>>

\* The workspace on w's chain, w included, that holds name nearest to w.
RECURSIVE Owner(_, _, _)
Owner(bm, w, name) ==
  IF name \in DOMAIN bm[w] THEN w
  ELSE IF shared_(w) = NoWs THEN NoWs
  ELSE Owner(bm, shared_(w), name)

\* RemoveBlob that reports the removal and leaves the entry in the map.
RemoveBlob_NoErase(w, name) ==
  /\ pc = "idle"
  /\ call' = [NoCall EXCEPT !.op = "RemoveBlob", !.ws = w, !.name = name,
                            !.ok = name \in DOMAIN blob_map_[w]]
  /\ UNCHANGED <<blob_map_, blob_data, nextBlob, netVars, poolVars>>

\* RemoveBlob that goes into shared_ when the name is not local.
RemoveBlob_IntoShared(w, name) ==
  /\ pc = "idle"
  /\ IF Owner(blob_map_, w, name) # NoWs
     THEN /\ blob_map_' = [blob_map_ EXCEPT ![Owner(blob_map_, w, name)] = Erase(@, name)]
          /\ blob_data' = [blob_data EXCEPT ![GetBlob(blob_map_, w, name)] = 0]
          /\ call' = [NoCall EXCEPT !.op = "RemoveBlob", !.ws = w,
                                    !.name = name, !.ok = TRUE]
     ELSE /\ UNCHANGED <<blob_map_, blob_data>>
          /\ call' = [NoCall EXCEPT !.op = "RemoveBlob", !.ws = w,
                                    !.name = name, !.ok = FALSE]
  /\ UNCHANGED <<nextBlob, netVars, poolVars>>

RemoveBlob(w, name) ==
  /\ pc = "idle"
  /\ IF name \in DOMAIN blob_map_[w]
     THEN /\ blob_map_' = [blob_map_ EXCEPT ![w] = Erase(@, name)]
          /\ blob_data' = [blob_data EXCEPT ![blob_map_[w][name]] = 0]
          /\ call' = [NoCall EXCEPT !.op = "RemoveBlob", !.ws = w,
                                    !.name = name, !.ok = TRUE]
     ELSE /\ UNCHANGED <<blob_map_, blob_data>>
          /\ call' = [NoCall EXCEPT !.op = "RemoveBlob", !.ws = w,
                                    !.name = name, !.ok = FALSE]
  /\ UNCHANGED <<nextBlob, netVars, poolVars>>

GetBlobCall(w, name) ==
  /\ pc = "idle"
  /\ call' = [NoCall EXCEPT !.op = "GetBlob", !.ws = w, !.name = name,
                            !.ptr = GetBlob(blob_map_, w, name)]
  /\ UNCHANGED <<blobVars, netVars, poolVars>>

\* A write through the handle the mutable GetBlob returns.
MutateBlob(w, name) ==
  /\ pc = "idle"
  /\ GetBlob(blob_map_, w, name) # NullBlob
  /\ blob_data[GetBlob(blob_map_, w, name)] = 0
  /\ blob_data' = [blob_data EXCEPT ![GetBlob(blob_map_, w, name)] = 1]
  /\ call' = [NoCall EXCEPT !.op = "MutateBlob", !.ws = w, !.name = name,
                            !.ptr = GetBlob(blob_map_, w, name)]
  /\ UNCHANGED <<blob_map_, nextBlob, netVars, poolVars>>

LocalBlobsCall(w) ==
  /\ pc = "idle"
  /\ call' = [NoCall EXCEPT !.op = "LocalBlobs", !.ws = w,
                            !.names = LocalBlobs(blob_map_, w)]
  /\ UNCHANGED <<blobVars, netVars, poolVars>>

BlobsCall(w) ==
  /\ pc = "idle"
  /\ call' = [NoCall EXCEPT !.op = "Blobs", !.ws = w,
                            !.names = Blobs(blob_map_, w)]
  /\ UNCHANGED <<blobVars, netVars, poolVars>>

\* -------------------------------------------------------------- diagnostics
\* What PrintBlobSizes reads of a blob: whether its type has a registered shape
\* function, and the shares_data flag and capacity that function reports.
Contents == [shape_fun : BOOLEAN, shares : BOOLEAN, capacity : 0..MaxCap]

\* Line 45 left out: a blob that shares data keeps its reported capacity.
Credit_Raw(c) == c.capacity

\* Lines 44-48: the capacity a blob is counted with.
Credit(c) == IF c.shares THEN 0 ELSE c.capacity

\* Lines 38-52: the (capacity, name) pairs of the blobs that have a shape
\* function, in the order the names are met.
RECURSIVE BlobSizes(_, _, _, _)
BlobSizes(bm, data, w, names) ==
  IF names = <<>> THEN <<>>
  ELSE (IF data[GetBlob(bm, w, Head(names))].shape_fun
        THEN <<<<Credit(data[GetBlob(bm, w, Head(names))]), Head(names)>>>>
        ELSE <<>>) \o BlobSizes(bm, data, w, Tail(names))

\* Line 49: cumtotal.
RECURSIVE CumTotal(_)
CumTotal(sizes) == IF sizes = <<>> THEN 0 ELSE Head(sizes)[1] + CumTotal(Tail(sizes))

\* Lines 53-59: std::sort with a comparator on the capacity alone. The result
\* is some arrangement in descending capacity; std::sort does not say in which
\* order it leaves elements that compare equal.
SortOutcomes(sizes) ==
  {p \in [1..Len(sizes) -> 1..Len(sizes)] :
     /\ \A i, j \in 1..Len(sizes) : i # j => p[i] # p[j]
     /\ \A i \in 1..Len(sizes) - 1 : ~(sizes[p[i]][1] < sizes[p[i + 1]][1])}

\* Lines 64-80: one line per blob (name, capacity, and the percentage as the
\* numerator over cumtotal), then the total.
PrintBlobSizes(w) ==
  /\ pc = "idle"
  /\ LET sizes == BlobSizes(blob_map_, blob_data, w, LocalBlobs(blob_map_, w))
         cumtotal == CumTotal(sizes)
     IN  \E p \in SortOutcomes(sizes) :
           call' = [NoCall EXCEPT
                      !.op = "PrintBlobSizes", !.ws = w, !.ptr = cumtotal,
                      !.names = [i \in 1..Len(sizes) |->
                                   <<sizes[p[i]][2], sizes[p[i]][1],
                                     IF cumtotal > 0 THEN 100 * sizes[p[i]][1] ELSE 0>>]]
  /\ UNCHANGED <<blobVars, netVars, poolVars>>

\* ------------------------------------------------------------- net registry
\* Outcomes of the net-construction collaborator caffe2::CreateNet(def, ws):
\* a net, nothing (unknown net type), or an exception out of a constructor.
Outcomes == {"ok", "null", "throw"}

\* Line 166 assigns net_map_[name] = unique_ptr(CreateNet(...)). Before C++17 the
\* two operands of the assignment are unsequenced, so a build may evaluate
\* net_map_[name] (which inserts an empty entry) before or after the call.
Orders == {"lhs_first", "rhs_first"}

\* A NetDef as far as the registry reads it: name() of a definition
\* without a name is the empty string.
NetDefs ==
  {d \in [has_name : BOOLEAN, name : NetNames] : d.has_name \/ d.name = EmptyName}

IdleCn == [ws |-> NoWs, name |-> 0, old |-> NullNet, made |-> ""]

\* CreateNet without the CAFFE_ENFORCE on has_name().
CreateNetBegin_NoEnforce(w, has_name, name, overwrite) ==
  /\ pc = "idle"
  /\ IF name \in DOMAIN net_map_[w] /\ ~overwrite
     THEN /\ call' = [NoCall EXCEPT !.op = "CreateNet", !.ws = w, !.name = name,
                                    !.thrown = "refuse"]
          /\ UNCHANGED <<net_map_, net_alive, pc, cn>>
     ELSE /\ IF name \in DOMAIN net_map_[w]
             THEN /\ net_map_' = [net_map_ EXCEPT ![w] = Erase(@, name)]
                  /\ net_alive' = net_alive \ {net_map_[w][name]}
                  /\ cn' = [ws |-> w, name |-> name, old |-> net_map_[w][name],
                           made |-> ""]
             ELSE /\ UNCHANGED <<net_map_, net_alive>>
                  /\ cn' = [ws |-> w, name |-> name, old |-> NullNet, made |-> ""]
          /\ pc' = "construct"
          /\ call' = [NoCall EXCEPT !.op = "CreateNet", !.ws = w, !.name = name]
  /\ UNCHANGED <<nextNet, blobVars, poolVars>>

\* CreateNet that leaves the old net in place for the assignment to replace.
CreateNetBegin_NoErase(w, has_name, name, overwrite) ==
  /\ pc = "idle"
  /\ IF ~has_name
     THEN /\ call' = [NoCall EXCEPT !.op = "CreateNet", !.ws = w, !.name = name,
                                    !.thrown = "usage"]
          /\ UNCHANGED <<pc, cn>>
     ELSE IF name \in DOMAIN net_map_[w] /\ ~overwrite
     THEN /\ call' = [NoCall EXCEPT !.op = "CreateNet", !.ws = w, !.name = name,
                                    !.thrown = "refuse"]
          /\ UNCHANGED <<pc, cn>>
     ELSE /\ cn' = [ws |-> w, name |-> name, made |-> "",
                    old |-> IF name \in DOMAIN net_map_[w]
                            THEN net_map_[w][name] ELSE NullNet]
          /\ pc' = "construct"
          /\ call' = [NoCall EXCEPT !.op = "CreateNet", !.ws = w, !.name = name]
  /\ UNCHANGED <<net_map_, net_alive, nextNet, blobVars, poolVars>>

\* Lines 148-163: the name check, the refusal, the erase of the old net.
CreateNetBegin(w, has_name, name, overwrite) ==
  /\ pc = "idle"
  /\ IF ~has_name
     THEN /\ call' = [NoCall EXCEPT !.op = "CreateNet", !.ws = w, !.name = name,
                                    !.thrown = "usage"]
          /\ UNCHANGED <<net_map_, net_alive, pc, cn>>
     ELSE IF name \in DOMAIN net_map_[w] /\ ~overwrite
     THEN /\ call' = [NoCall EXCEPT !.op = "CreateNet", !.ws = w, !.name = name,
                                    !.thrown = "refuse"]
          /\ UNCHANGED <<net_map_, net_alive, pc, cn>>
     ELSE /\ IF name \in DOMAIN net_map_[w]
             THEN /\ net_map_' = [net_map_ EXCEPT ![w] = Erase(@, name)]
                  /\ net_alive' = net_alive \ {net_map_[w][name]}
                  /\ cn' = [ws |-> w, name |-> name, old |-> net_map_[w][name],
                           made |-> ""]
             ELSE /\ UNCHANGED <<net_map_, net_alive>>
                  /\ cn' = [ws |-> w, name |-> name, old |-> NullNet, made |-> ""]
          /\ pc' = "construct"
          /\ call' = [NoCall EXCEPT !.op = "CreateNet", !.ws = w, !.name = name]
  /\ UNCHANGED <<nextNet, blobVars, poolVars>>

\* Lines 166-167: the construction and the assignment into the map.
CreateNetConstruct(order, outcome) ==
  /\ pc = "construct"
  /\ CASE outcome = "ok" ->
            /\ nextNet < MaxNets
            /\ nextNet' = nextNet + 1
            /\ net_alive' = net_alive \cup {nextNet + 1}
            /\ net_map_' = [net_map_ EXCEPT ![cn.ws] = Put(@, cn.name, nextNet + 1)]
            /\ pc' = "check"
            /\ cn' = [cn EXCEPT !.made = "ok"]
            /\ UNCHANGED call
       [] outcome = "null" ->
            /\ net_map_' = [net_map_ EXCEPT ![cn.ws] = Put(@, cn.name, NullNet)]
            /\ pc' = "check"
            /\ cn' = [cn EXCEPT !.made = "null"]
            /\ UNCHANGED <<nextNet, net_alive, call>>
       [] outcome = "throw" ->
            /\ net_map_' = IF order = "lhs_first"
                           THEN [net_map_ EXCEPT ![cn.ws] = Put(@, cn.name, NullNet)]
                           ELSE net_map_
            /\ pc' = "idle"
            /\ cn' = IdleCn
            /\ call' = [call EXCEPT !.thrown = "construct"]
            /\ UNCHANGED <<nextNet, net_alive>>
  /\ UNCHANGED <<blobVars, poolVars>>

\* CreateNet that puts the net it replaced back when the construction fails.
CreateNetFinish_RestoreOld ==
  /\ pc = "check"
  /\ IF net_map_[cn.ws][cn.name] = NullNet
     THEN /\ IF cn.old # NullNet
             THEN /\ net_map_' = [net_map_ EXCEPT ![cn.ws] = Put(@, cn.name, cn.old)]
                  /\ net_alive' = net_alive \cup {cn.old}
             ELSE /\ net_map_' = [net_map_ EXCEPT ![cn.ws] = Erase(@, cn.name)]
                  /\ UNCHANGED net_alive
          /\ call' = [call EXCEPT !.op = "CreateNet.ret", !.made = cn.made,
                                  !.old = cn.old, !.ptr = NullNet]
     ELSE /\ UNCHANGED <<net_map_, net_alive>>
          /\ call' = [call EXCEPT !.op = "CreateNet.ret", !.made = cn.made,
                                  !.old = cn.old, !.ptr = net_map_[cn.ws][cn.name]]
  /\ pc' = "idle"
  /\ cn' = IdleCn
  /\ UNCHANGED <<nextNet, blobVars, poolVars>>

\* CreateNet that returns nullptr without erasing the empty entry.
CreateNetFinish_KeepNull ==
  /\ pc = "check"
  /\ call' = [call EXCEPT !.op = "CreateNet.ret", !.made = cn.made, !.old = cn.old,
                          !.ptr = net_map_[cn.ws][cn.name]]
  /\ pc' = "idle"
  /\ cn' = IdleCn
  /\ UNCHANGED <<net_map_, net_alive, nextNet, blobVars, poolVars>>

\* Lines 168-174: the null check, the erase of a null entry, the return.
CreateNetFinish ==
  /\ pc = "check"
  /\ IF net_map_[cn.ws][cn.name] = NullNet
     THEN /\ net_map_' = [net_map_ EXCEPT ![cn.ws] = Erase(@, cn.name)]
          /\ call' = [call EXCEPT !.op = "CreateNet.ret", !.made = cn.made,
                                  !.old = cn.old, !.ptr = NullNet]
     ELSE /\ UNCHANGED net_map_
          /\ call' = [call EXCEPT !.op = "CreateNet.ret", !.made = cn.made,
                                  !.old = cn.old, !.ptr = net_map_[cn.ws][cn.name]]
  /\ pc' = "idle"
  /\ cn' = IdleCn
  /\ UNCHANGED <<net_alive, nextNet, blobVars, poolVars>>

\* GetNet that falls back to the parent workspace the way GetBlob does.
RECURSIVE GetNet_Fallback(_, _, _)
GetNet_Fallback(nm, w, name) ==
  IF name \in DOMAIN nm[w] THEN nm[w][name]
  ELSE IF shared_(w) # NoWs THEN GetNet_Fallback(nm, shared_(w), name)
  ELSE NullNet

GetNet(nm, w, name) ==
  IF name \notin DOMAIN nm[w] THEN NullNet ELSE nm[w][name]

\* GetNet that indexes the map without testing count() first: operator[]
\* enters an empty pointer under a name that is not there.
GetNetCall_Inserts(w, name) ==
  /\ pc = "idle"
  /\ net_map_' = IF name \in DOMAIN net_map_[w]
                 THEN net_map_
                 ELSE [net_map_ EXCEPT ![w] = Put(@, name, NullNet)]
  /\ call' = [NoCall EXCEPT !.op = "GetNet", !.ws = w, !.name = name,
                            !.ptr = GetNet(net_map_, w, name)]
  /\ UNCHANGED <<net_alive, nextNet, pc, cn, blobVars, poolVars>>

GetNetCall(w, name) ==
  /\ pc = "idle"
  /\ call' = [NoCall EXCEPT !.op = "GetNet", !.ws = w, !.name = name,
                            !.ptr = GetNet(net_map_, w, name)]
  /\ UNCHANGED <<netVars, blobVars, poolVars>>

DeleteNet(w, name) ==
  /\ pc = "idle"
  /\ IF name \in DOMAIN net_map_[w]
     THEN /\ net_map_' = [net_map_ EXCEPT ![w] = Erase(@, name)]
          /\ net_alive' = net_alive \ {net_map_[w][name]}
     ELSE UNCHANGED <<net_map_, net_alive>>
  /\ call' = [NoCall EXCEPT !.op = "DeleteNet", !.ws = w, !.name = name]
  /\ UNCHANGED <<nextNet, pc, cn, blobVars, poolVars>>

\* result is what the net's Run() returns. Calling Run() through an empty
\* unique_ptr is a null dereference: the process does not survive it.
RunNet(w, name, result) ==
  /\ pc = "idle"
  /\ IF name \notin DOMAIN net_map_[w]
     THEN /\ call' = [NoCall EXCEPT !.op = "RunNet", !.ws = w, !.name = name,
                                    !.ok = FALSE]
          /\ UNCHANGED pc
     ELSE IF net_map_[w][name] = NullNet
     THEN /\ call' = [NoCall EXCEPT !.op = "RunNet", !.ws = w, !.name = name,
                                    !.thrown = "nullderef"]
          /\ pc' = "crashed"
     ELSE /\ call' = [NoCall EXCEPT !.op = "RunNet", !.ws = w, !.name = name,
                                    !.ok = result, !.ran = net_map_[w][name]]
          /\ UNCHANGED pc
  /\ UNCHANGED <<net_map_, net_alive, nextNet, cn, blobVars, poolVars>>

\* RunNetOnce that keeps the net it built under the definition's name.
RunNetOnce_Registers(w, name, outcome, result) ==
  /\ pc = "idle"
  /\ CASE outcome = "ok" ->
            /\ nextNet < MaxNets
            /\ nextNet' = nextNet + 1
            /\ net_map_' = [net_map_ EXCEPT ![w] = Put(@, name, nextNet + 1)]
            /\ net_alive' = net_alive \cup {nextNet + 1}
            /\ call' = [NoCall EXCEPT !.op = "RunNetOnce", !.ws = w, !.name = name,
                                      !.ok = result, !.ran = nextNet + 1]
       [] outcome = "null" ->
            /\ call' = [NoCall EXCEPT !.op = "RunNetOnce", !.ws = w, !.name = name,
                                      !.thrown = "could_not_create"]
            /\ UNCHANGED <<nextNet, net_map_, net_alive>>
       [] outcome = "throw" ->
            /\ call' = [NoCall EXCEPT !.op = "RunNetOnce", !.ws = w, !.name = name,
                                      !.thrown = "construct"]
            /\ UNCHANGED <<nextNet, net_map_, net_alive>>
  /\ UNCHANGED <<pc, cn, blobVars, poolVars>>

\* The transient net is constructed, run and destroyed inside the call.
RunNetOnce(w, name, outcome, result) ==
  /\ pc = "idle"
  /\ CASE outcome = "ok" ->
            /\ nextNet < MaxNets
            /\ nextNet' = nextNet + 1
            /\ call' = [NoCall EXCEPT !.op = "RunNetOnce", !.ws = w, !.name = name,
                                      !.ok = result, !.ran = nextNet + 1]
       [] outcome = "null" ->
            /\ call' = [NoCall EXCEPT !.op = "RunNetOnce", !.ws = w, !.name = name,
                                      !.thrown = "could_not_create"]
            /\ UNCHANGED nextNet
       [] outcome = "throw" ->
            /\ call' = [NoCall EXCEPT !.op = "RunNetOnce", !.ws = w, !.name = name,
                                      !.thrown = "construct"]
            /\ UNCHANGED nextNet
  /\ UNCHANGED <<net_map_, net_alive, pc, cn, blobVars, poolVars>>

\* ---------------------------------------------------------------- thread pool
\* The cap with the middle band ending one core early.
NumThreadsFor_ShortBand(n, cap) ==
  IF cap
  THEN IF n <= 3 THEN n ELSE IF n < 5 THEN 3 ELSE n \div 2
  ELSE n

\* Lines 246-262: the number of threads the pool is built with.
NumThreadsFor(n, cap) ==
  IF cap
  THEN IF n <= 3 THEN n ELSE IF n <= 5 THEN 3 ELSE n \div 2
  ELSE n

\* GetThreadPool entered without waiting for the mutex.
TpLock_NoMutex(t) ==
  /\ tpc[t] = "idle"
  /\ mutex' = t
  /\ tpc' = [tpc EXCEPT ![t] = "check"]
  /\ UNCHANGED <<thread_pool_, tret, tsize, hw, applyCap, call, blobVars, netVars>>

\* Line 232: the lock_guard takes thread_pool_creation_mutex_.
TpLock(t) ==
  /\ tpc[t] = "idle"
  /\ mutex = 0
  /\ mutex' = t
  /\ tpc' = [tpc EXCEPT ![t] = "check"]
  /\ UNCHANGED <<thread_pool_, tret, tsize, hw, applyCap, call, blobVars, netVars>>

\* Line 234: if (!thread_pool_).
TpCheck(t) ==
  /\ tpc[t] = "check"
  /\ tpc' = [tpc EXCEPT ![t] = IF thread_pool_ = 0 THEN "construct" ELSE "return"]
  /\ UNCHANGED <<thread_pool_, mutex, tret, tsize, hw, applyCap, call, blobVars, netVars>>

\* Lines 235-265: thread_pool_.reset(new ThreadPool(numThreads)).
TpConstruct(t) ==
  /\ tpc[t] = "construct"
  /\ Len(tsize) < MaxPools
  /\ tsize' = Append(tsize, NumThreadsFor(hw, applyCap))
  /\ thread_pool_' = Len(tsize) + 1
  /\ tpc' = [tpc EXCEPT ![t] = "return"]
  /\ UNCHANGED <<mutex, tret, hw, applyCap, call, blobVars, netVars>>

\* Line 268: the return value is read, then the lock_guard releases the mutex.
TpReturn(t) ==
  /\ tpc[t] = "return"
  /\ tret' = [tret EXCEPT ![t] = thread_pool_]
  /\ mutex' = IF mutex = t THEN 0 ELSE mutex
  /\ tpc' = [tpc EXCEPT ![t] = "idle"]
  /\ UNCHANGED <<thread_pool_, tsize, hw, applyCap, call, blobVars, netVars>>

\* --------------------------------------------------------------- initial state
EmptyMap == [x \in {} |-> 0]

InitRegistry ==
  /\ blob_map_ = [w \in Workspaces |-> EmptyMap]
  /\ blob_data = [b \in BlobIds |-> 0]
  /\ nextBlob = 0
  /\ net_map_ = [w \in Workspaces |-> EmptyMap]
  /\ net_alive = {}
  /\ nextNet = 0
  /\ pc = "idle"
  /\ cn = IdleCn
  /\ call = NoCall

InitPool ==
  /\ thread_pool_ = 0
  /\ mutex = 0
  /\ tpc = [t \in Threads |-> "idle"]
  /\ tret = [t \in Threads |-> 0]
  /\ tsize = <<>>

\* The registry specifications run on one machine; the pool specification
\* ranges over the machines and the cap flag.
Init == InitRegistry /\ InitPool /\ hw = 1 /\ applyCap = FALSE

PoolInit == InitRegistry /\ InitPool /\ hw \in 0..MaxHw /\ applyCap \in BOOLEAN

\* A root workspace whose blobs have been created and written: every name
\* holds some contents.
PrintInit ==
  /\ blob_map_ = [w \in Workspaces |-> IF w = 1 THEN [n \in BlobNames |-> n] ELSE EmptyMap]
  /\ nextBlob = NumBlobNames
  /\ blob_data \in [BlobIds -> Contents]
  /\ \A b \in BlobIds : b > NumBlobNames =>
       blob_data[b] = [shape_fun |-> FALSE, shares |-> FALSE, capacity |-> 0]
  /\ net_map_ = [w \in Workspaces |-> EmptyMap]
  /\ net_alive = {}
  /\ nextNet = 0
  /\ pc = "idle"
  /\ cn = IdleCn
  /\ call = NoCall
  /\ InitPool
  /\ hw = 1
  /\ applyCap = FALSE

BlobNext ==
  \/ \E w \in Workspaces, name \in BlobNames : CreateBlob(w, name)
  \/ \E w \in Workspaces, name \in BlobNames : RemoveBlob(w, name)
  \/ \E w \in Workspaces, name \in BlobNames : GetBlobCall(w, name)
  \/ \E w \in Workspaces, name \in BlobNames : MutateBlob(w, name)
  \/ \E w \in Workspaces : LocalBlobsCall(w)
  \/ \E w \in Workspaces : BlobsCall(w)

SpecBlob == Init /\ [][BlobNext]_vars

NetNext ==
  \/ \E w \in Workspaces, def \in NetDefs, overwrite \in BOOLEAN :
       CreateNetBegin(w, def.has_name, def.name, overwrite)
  \/ \E order \in Orders, outcome \in Outcomes : CreateNetConstruct(order, outcome)
  \/ CreateNetFinish
  \/ \E w \in Workspaces, name \in NetNames : GetNetCall(w, name)
  \/ \E w \in Workspaces, name \in NetNames : DeleteNet(w, name)
  \/ \E w \in Workspaces, name \in NetNames, result \in BOOLEAN : RunNet(w, name, result)
  \/ \E w \in Workspaces, name \in NetNames, outcome \in Outcomes, result \in BOOLEAN :
       RunNetOnce(w, name, outcome, result)

SpecNet == Init /\ [][NetNext]_vars

PoolNext ==
  \/ \E t \in Threads : TpLock(t)
  \/ \E t \in Threads : TpCheck(t)
  \/ \E t \in Threads : TpConstruct(t)
  \/ \E t \in Threads : TpReturn(t)

SpecPool == PoolInit /\ [][PoolNext]_vars

PrintNext == \E w \in Workspaces : PrintBlobSizes(w)

SpecPrint == PrintInit /\ [][PrintNext]_vars

\* The registry interface (the operations that create, remove, look up and
\* list blobs and nets) on every workspace of the chain, both stores together,
\* while at most MaxAllocs objects have been allocated and at most MaxEntries
\* names are registered over all the maps.
Entries(bm, nm) ==
  Cardinality({e \in Workspaces \X BlobNames : e[2] \in DOMAIN bm[e[1]]})
    + Cardinality({e \in Workspaces \X NetNames : e[2] \in DOMAIN nm[e[1]]})

Next ==
  \/ \E w \in Workspaces, name \in BlobNames :
       CreateBlob(w, name) /\ nextBlob' + nextNet' <= MaxAllocs
  \/ \E w \in Workspaces, name \in BlobNames : RemoveBlob(w, name)
  \/ \E w \in Workspaces, name \in BlobNames : GetBlobCall(w, name)
  \/ \E w \in Workspaces : LocalBlobsCall(w)
  \/ \E w \in Workspaces : BlobsCall(w)
  \/ \E w \in Workspaces, def \in NetDefs, overwrite \in BOOLEAN :
       CreateNetBegin(w, def.has_name, def.name, overwrite)
  \/ \E order \in Orders, outcome \in Outcomes :
       /\ CreateNetConstruct(order, outcome)
       /\ nextBlob' + nextNet' <= MaxAllocs
       /\ Entries(blob_map_', net_map_') <= MaxEntries
  \/ CreateNetFinish
  \/ \E w \in Workspaces, name \in NetNames : GetNetCall(w, name)
  \/ \E w \in Workspaces, name \in NetNames : DeleteNet(w, name)

Spec == Init /\ [][Next]_vars

\* ===================================================================== claims
IsKey(m, w, name) == name \in DOMAIN m[w]

\* C1: a CreateNet call whose construction yields nothing returns null and
\* leaves the name out of the net registry, so that GetNet of the name is null.
C1_FailedConstructionLeavesNoTrace ==
  (call.op = "CreateNet.ret" /\ call.made = "null") =>
    /\ call.ptr = NullNet
    /\ ~IsKey(net_map_, call.ws, call.name)
    /\ GetNet(net_map_, call.ws, call.name) = NullNet

C1_Witness ==
  /\ call.op = "CreateNet.ret"
  /\ call.made = "null"
  /\ call.ptr = NullNet
  /\ pc = "idle"

\* C2: whenever no CreateNet call is in progress, every name in a net registry
\* maps to a non-null net.
C2_NoNullEntry ==
  pc = "idle" =>
    \A w \in Workspaces : \A n \in DOMAIN net_map_[w] : net_map_[w][n] # NullNet

\* C3: CreateNet with overwrite=false on a registered name raises the refusal
\* and changes nothing: the name still maps to the same net, which is alive and
\* can be run.
C3_RefusalKeepsNet ==
  [][\A w \in Workspaces : \A n \in NetNames :
       (IsKey(net_map_, w, n) /\ CreateNetBegin(w, TRUE, n, FALSE)) =>
         /\ call'.thrown = "refuse"
         /\ pc' = "idle"
         /\ net_map_' = net_map_
         /\ net_alive' = net_alive
         /\ net_map_'[w][n] # NullNet
         /\ net_map_'[w][n] \in net_alive']_vars

\* C4: on an overwrite the old net is destroyed and out of the registry before
\* the replacement is constructed, and no net object is alive outside the one
\* registry entry that owns it, so the old and the new net never coexist.
C4_DestroyBeforeConstruct ==
  /\ (pc \in {"construct", "check"} /\ cn.old # NullNet) =>
       /\ cn.old \notin net_alive
       /\ \A w \in Workspaces : \A n \in DOMAIN net_map_[w] : net_map_[w][n] # cn.old
  /\ pc = "construct" => ~IsKey(net_map_, cn.ws, cn.name)
  /\ \A i \in net_alive :
       Cardinality({e \in Workspaces \X NetNames :
                      IsKey(net_map_, e[1], e[2]) /\ net_map_[e[1]][e[2]] = i}) = 1

C4_Witness ==
  /\ pc = "check"
  /\ cn.old # NullNet
  /\ cn.made = "ok"
  /\ net_map_[cn.ws][cn.name] \in net_alive
  /\ net_map_[cn.ws][cn.name] # cn.old

\* C5: a CreateBlob call that finds the name returns the blob the name resolves
\* to and changes no map and no contents; in particular the second of two
\* CreateBlob calls in a row returns what the first returned. No CreateBlob call
\* changes any blob's contents or adds more than one local name.
C5_CreateBlobIdempotent ==
  [][\A w \in Workspaces : \A n \in BlobNames :
       (call'.op = "CreateBlob" /\ call'.ws = w /\ call'.name = n) =>
         /\ call'.ptr # NullBlob
         /\ blob_data' = blob_data
         /\ Cardinality(DOMAIN blob_map_'[w]) <= Cardinality(DOMAIN blob_map_[w]) + 1
         /\ GetBlob(blob_map_, w, n) # NullBlob =>
              (call'.ptr = GetBlob(blob_map_, w, n) /\ blob_map_' = blob_map_)
         /\ (call.op = "CreateBlob" /\ call.ws = w /\ call.name = n) =>
              (call'.ptr = call.ptr /\ blob_map_' = blob_map_)]_vars

C5_Witness ==
  /\ call.op = "CreateBlob"
  /\ ~call.ok
  /\ IsKey(blob_map_, call.ws, call.name)
  /\ call.ptr = blob_map_[call.ws][call.name]
  /\ blob_data[call.ptr] = 1

\* The case of C6: CreateBlob(n) on a workspace w that does not hold n while
\* its parent does.
ParentOnly(bm, w, n) ==
  /\ shared_(w) # NoWs
  /\ ~IsKey(bm, w, n)
  /\ IsKey(bm, shared_(w), n)

RECURSIVE Chain(_)
Chain(w) == IF w = NoWs THEN <<>> ELSE <<w>> \o Chain(shared_(w))

Holders(bm, w, n) == {i \in 1..Len(Chain(w)) : IsKey(bm, Chain(w)[i], n)}

Nearest(bm, w, n) ==
  IF Holders(bm, w, n) = {} THEN NullBlob
  ELSE LET i == CHOOSE k \in Holders(bm, w, n) : \A j \in Holders(bm, w, n) : k <= j
       IN  bm[Chain(w)[i]][n]

\* C7: on a chain of any depth GetBlob returns the blob of the nearest
\* workspace, from the workspace itself upwards, whose own map holds the name,
\* and null exactly when no workspace on the chain holds it.
C7_GetBlobNearest ==
  /\ \A w \in Workspaces : \A n \in BlobNames :
       /\ GetBlob(blob_map_, w, n) = Nearest(blob_map_, w, n)
       /\ GetBlob(blob_map_, w, n) = NullBlob <=> Holders(blob_map_, w, n) = {}
  /\ call.op = "GetBlob" => call.ptr = Nearest(blob_map_, call.ws, call.name)

C7_Witness ==
  \E w \in Workspaces : \E n \in BlobNames :
    /\ call.op = "GetBlob" /\ call.ws = w /\ call.name = n
    /\ Len(Chain(w)) >= 3
    /\ ~IsKey(blob_map_, w, n)
    /\ ~IsKey(blob_map_, Chain(w)[2], n)
    /\ IsKey(blob_map_, Chain(w)[3], n)
    /\ call.ptr = blob_map_[Chain(w)[3]][n]

\* The workspaces above w on its chain.
Ancestors(w) == {Chain(w)[i] : i \in 2..Len(Chain(w))}

\* C8: no registry call on a workspace changes the blob map or the net map of
\* any workspace above it; a RemoveBlob on the child leaves the parent's blob
\* of that name in place.
C8_ParentUntouched ==
  [][\A w \in Workspaces :
       call'.ws = w =>
         \A p \in Ancestors(w) :
           /\ blob_map_'[p] = blob_map_[p]
           /\ net_map_'[p] = net_map_[p]]_vars

C8_Witness ==
  \E w \in Workspaces : \E n \in BlobNames :
    /\ call.op = "RemoveBlob" /\ call.ws = w /\ call.name = n
    /\ ~call.ok
    /\ shared_(w) # NoWs
    /\ IsKey(blob_map_, shared_(w), n)
    /\ \E p \in Ancestors(w) : \E m \in DOMAIN net_map_[p] : net_map_[p][m] # NullNet

\* The case of C9: the parent of w has a net under n, w has no entry under n.
ParentNetOnly(nm, w, n) ==
  /\ shared_(w) # NoWs
  /\ ~IsKey(nm, w, n)
  /\ IsKey(nm, shared_(w), n)
  /\ nm[shared_(w)][n] # NullNet

\* C9: where the parent has a net n and the child has none, the child's GetNet(n)
\* is null, its RunNet(n) fails and runs nothing, and its CreateNet(n) is not
\* refused: it goes on to construct the net, in the child's registry only.
C9_NetsAreLocal ==
  [][\A w \in Workspaces : \A n \in NetNames :
       ParentNetOnly(net_map_, w, n) =>
         /\ GetNet(net_map_, w, n) = NullNet
         /\ (call'.op = "GetNet" /\ call'.ws = w /\ call'.name = n) =>
              call'.ptr = NullNet
         /\ (call'.op = "RunNet" /\ call'.ws = w /\ call'.name = n) =>
              (~call'.ok /\ call'.ran = NullNet /\ call'.thrown = "")
         /\ \A overwrite \in BOOLEAN :
              CreateNetBegin(w, TRUE, n, overwrite) =>
                (call'.thrown = "" /\ pc' = "construct" /\ cn'.old = NullNet
                   /\ net_map_' = net_map_)]_vars

C9_Witness ==
  \E w \in Workspaces : \E n \in NetNames :
    /\ ParentNetOnly(net_map_, w, n)
    /\ call.op = "RunNet" /\ call.ws = w /\ call.name = n
    /\ ~call.ok
    /\ call.ran = NullNet

\* C10: under any interleaving of GetThreadPool calls at most one pool is ever
\* constructed, and every call that has returned returned that one pool.
C10_PoolSingleton ==
  /\ Len(tsize) <= 1
  /\ thread_pool_ = Len(tsize)
  /\ \A t \in Threads : tret[t] # 0 => (tret[t] = 1 /\ thread_pool_ = 1)
  /\ \A t \in Threads : tpc[t] = "return" => thread_pool_ = 1

C10_Witness ==
  /\ Len(tsize) = 1
  /\ \A t \in Threads : tret[t] = thread_pool_
  /\ \E t \in Threads : tpc[t] = "return"

\* The number of positions of the list s that hold n.
Count(s, n) == Cardinality({i \in 1..Len(s) : s[i] = n})

\* The sizes of the own blob maps of the workspaces in the list ws, added up.
RECURSIVE SumSizes(_, _)
SumSizes(bm, ws) ==
  IF ws = <<>> THEN 0
  ELSE Cardinality(DOMAIN bm[Head(ws)]) + SumSizes(bm, Tail(ws))

\* C11: Blobs() is the workspace's local names followed by the parent's whole
\* Blobs() list, nothing removed: its length is the sum of the local map sizes
\* along the chain and a name held by k workspaces of the chain appears k times.
C11_BlobsConcatenates ==
  /\ \A w \in Workspaces :
       /\ Len(Blobs(blob_map_, w)) = SumSizes(blob_map_, Chain(w))
       /\ \A n \in BlobNames :
            Count(Blobs(blob_map_, w), n) = Cardinality(Holders(blob_map_, w, n))
       /\ SubSeq(Blobs(blob_map_, w), 1, Cardinality(DOMAIN blob_map_[w]))
            = LocalBlobs(blob_map_, w)
       /\ shared_(w) # NoWs =>
            SubSeq(Blobs(blob_map_, w), Cardinality(DOMAIN blob_map_[w]) + 1,
                   Len(Blobs(blob_map_, w))) = Blobs(blob_map_, shared_(w))
  /\ call.op = "Blobs" => call.names = Blobs(blob_map_, call.ws)

C11_Witness ==
  /\ call.op = "Blobs"
  /\ Len(Chain(call.ws)) >= 3
  /\ \E n \in BlobNames : Count(call.names, n) >= 2
  /\ Len(call.names) = 3

\* C12, as claimed: a CreateNet whose definition has no name or the empty
\* string as its name raises the usage error and leaves the registry as it
\* was, and no net registry ever has an entry under the empty name.
C12_NonEmptyNameAsClaimed ==
  /\ [][\A w \in Workspaces : \A def \in NetDefs : \A overwrite \in BOOLEAN :
          (def.name = EmptyName /\ CreateNetBegin(w, def.has_name, def.name, overwrite)) =>
            /\ call'.thrown = "usage"
            /\ pc' = "idle"
            /\ net_map_' = net_map_
            /\ net_alive' = net_alive]_vars
  /\ [](\A w \in Workspaces : ~IsKey(net_map_, w, EmptyName))

\* C12, amended: a CreateNet whose definition has no name (has_name() false)
\* raises the usage error before touching the registry: no net is constructed
\* and the registry is as it was. A definition whose name is present is never
\* met with the usage error, the empty string included.
C12_NamePresenceRequired ==
  /\ [][\A w \in Workspaces : \A overwrite \in BOOLEAN :
          (call'.op = "CreateNet" /\ call'.ws = w
             /\ CreateNetBegin(w, FALSE, EmptyName, overwrite)) =>
            /\ call'.thrown = "usage"
            /\ pc' = "idle"
            /\ net_map_' = net_map_
            /\ net_alive' = net_alive
            /\ nextNet' = nextNet]_vars
  /\ [][\A w \in Workspaces : \A n \in NetNames : \A overwrite \in BOOLEAN :
          (call'.op = "CreateNet" /\ call'.ws = w /\ call'.name = n
             /\ CreateNetBegin(w, TRUE, n, overwrite)) => call'.thrown # "usage"]_vars

C12_Witness ==
  /\ call.op = "CreateNet"
  /\ call.thrown = "usage"
  /\ pc = "idle"
  /\ IsKey(net_map_, call.ws, EmptyName)
  /\ net_map_[call.ws][EmptyName] \in net_alive

\* The pool size the policy prescribes for n detected hardware threads.
PolicySize(n, cap) ==
  IF ~cap THEN n
  ELSE IF n \in 0..3 THEN n
  ELSE IF n \in {4, 5} THEN 3
  ELSE CHOOSE k \in 0..n : 2 * k <= n /\ n < 2 * k + 2

\* C13: with the cap enabled a pool is built with n threads for n <= 3, with 3
\* for n of 4 or 5 and with floor(n/2) for n > 5; with the cap disabled it is
\* built with exactly n threads.
C13_PoolSizePolicy ==
  \A i \in 1..Len(tsize) : tsize[i] = PolicySize(hw, applyCap)

C13_Witness ==
  /\ Len(tsize) = 1
  /\ applyCap
  /\ hw = 7
  /\ tsize[1] = 3
  /\ \E t \in Threads : tret[t] = thread_pool_

\* The local blobs PrintBlobSizes reports: those whose type has a shape function.
Shown(w) == {n \in DOMAIN blob_map_[w] : blob_data[blob_map_[w][n]].shape_fun}

\* The capacity a reported blob should be counted with.
Credited(w, n) ==
  IF blob_data[blob_map_[w][n]].shares THEN 0 ELSE blob_data[blob_map_[w][n]].capacity

RECURSIVE SumCredited(_, _)
SumCredited(w, S) ==
  IF S = {} THEN 0
  ELSE LET n == CHOOSE x \in S : TRUE IN Credited(w, n) + SumCredited(w, S \ {n})

\* What every report satisfies: one line per shown blob and no other line, each
\* with its credited capacity, capacities never increasing down the list, and
\* the total equal to the sum of the credited capacities.
Report ==
  LET w == call.ws
      lines == call.names
  IN  /\ Len(lines) = Cardinality(Shown(w))
      /\ \A i \in 1..Len(lines) : lines[i][1] \in Shown(w) /\ lines[i][2] = Credited(w, lines[i][1])
      /\ \A n \in Shown(w) : \E i \in 1..Len(lines) : lines[i][1] = n
      /\ \A i, j \in 1..Len(lines) : i < j => lines[i][2] >= lines[j][2]
      /\ call.ptr = SumCredited(w, Shown(w))

\* C14 as claimed: the report lists the local blobs that have a shape function
\* in descending order of credited capacity, blobs of equal capacity staying in
\* the order they were met (ascending name); a sharing blob is credited 0 and
\* the total is the sum of the credited capacities.
C14_StableRankingAsClaimed ==
  call.op = "PrintBlobSizes" =>
    /\ Report
    /\ \A i, j \in 1..Len(call.names) :
         (i < j /\ call.names[i][2] = call.names[j][2]) => call.names[i][1] < call.names[j][1]

\* C14, corrected: the report lists the local blobs that have a shape function
\* in descending order of credited capacity, a sharing blob is credited 0 and
\* the total is the sum of the credited capacities; the order among blobs of
\* equal capacity is whatever std::sort leaves.
C14_Ranking == call.op = "PrintBlobSizes" => Report

\* A report of two blobs credited the same, one of them only because it shares
\* its storage, listed against the order they were met.
C14_Witness ==
  /\ call.op = "PrintBlobSizes"
  /\ Len(call.names) >= 2
  /\ call.names[1][2] = call.names[2][2]
  /\ call.names[1][1] > call.names[2][1]
  /\ \E n \in Shown(call.ws) :
       blob_data[blob_map_[call.ws][n]].shares /\ blob_data[blob_map_[call.ws][n]].capacity > 0

\* C15: RunNet(name) returns failure and runs nothing when the name is not in
\* the workspace's net registry; otherwise it runs the net registered under the
\* name, once, and returns that net's result; the registered names are the same
\* before and after.
C15_RunNetRunsRegistered ==
  [][\A w \in Workspaces, n \in NetNames, result \in BOOLEAN :
       (call'.op = "RunNet" /\ call'.ws = w /\ call'.name = n /\ RunNet(w, n, result)) =>
         /\ IF ~IsKey(net_map_, w, n)
            THEN ~call'.ok /\ call'.ran = NullNet
            ELSE /\ call'.ran = net_map_[w][n]
                 /\ call'.ran \in net_alive
                 /\ call'.ok = result
         /\ call'.thrown = ""
         /\ pc' = "idle"
         /\ net_map_' = net_map_
         /\ net_alive' = net_alive]_vars

\* C16: RunNetOnce never changes the net registry: the net it builds is not
\* entered under its name, whether or not a net of that name is registered, and
\* is gone when the call returns; a failed construction is raised, not
\* returned; a failed run returns false.
C16_RunNetOnceTransient ==
  [][\A w \in Workspaces, n \in NetNames, outcome \in Outcomes, result \in BOOLEAN :
       (call'.op = "RunNetOnce" /\ call'.ws = w /\ call'.name = n
          /\ RunNetOnce(w, n, outcome, result)) =>
         /\ net_map_' = net_map_
         /\ net_alive' = net_alive
         /\ call'.ran \notin net_alive'
         /\ \A v \in Workspaces, m \in NetNames :
              IsKey(net_map_', v, m) /\ call'.ran # NullNet => net_map_'[v][m] # call'.ran
         /\ IF outcome = "ok"
            THEN call'.thrown = "" /\ call'.ran # NullNet /\ call'.ok = result
            ELSE call'.thrown # "" /\ call'.ran = NullNet /\ ~call'.ok]_vars

\* A RunNetOnce whose run failed, under a name that holds a live registered net.
C16_Witness ==
  /\ call.op = "RunNetOnce"
  /\ call.thrown = ""
  /\ ~call.ok
  /\ call.ran # NullNet
  /\ IsKey(net_map_, call.ws, call.name)
  /\ net_map_[call.ws][call.name] \in net_alive
  /\ net_map_[call.ws][call.name] # call.ran

\* C17: RemoveBlob(name) returns true exactly when the name was in the
\* workspace's own blob map right before the call; after the call the name is
\* not in LocalBlobs() either way, and every other local entry is unchanged.
C17_RemoveBlobLocal ==
  [][\A w \in Workspaces, n \in BlobNames :
       (call'.op = "RemoveBlob" /\ call'.ws = w /\ call'.name = n /\ RemoveBlob(w, n)) =>
         /\ call'.ok <=> IsKey(blob_map_, w, n)
         /\ Count(LocalBlobs(blob_map_', w), n) = 0
         /\ \A m \in BlobNames \ {n} :
              /\ IsKey(blob_map_', w, m) <=> IsKey(blob_map_, w, m)
              /\ IsKey(blob_map_, w, m) => blob_map_'[w][m] = blob_map_[w][m]]_vars

\* A removal that succeeded in a workspace that keeps another blob, of a name
\* an ancestor still holds.
C17_Witness ==
  /\ call.op = "RemoveBlob"
  /\ call.ok
  /\ DOMAIN blob_map_[call.ws] # {}
  /\ ~IsKey(blob_map_, call.ws, call.name)
  /\ HasBlob(blob_map_, call.ws, call.name)

\* C18: when CreateNet replaces an existing net (overwrite = true) and the
\* construction of the replacement yields nothing, the old net is destroyed and
\* not restored: CreateNet returns null, and afterwards GetNet(name) returns
\* null and RunNet(name) returns failure.
C18_FailedOverwriteDeletes ==
  /\ [][(pc = "check" /\ cn.made = "null" /\ cn.old # NullNet /\ CreateNetFinish) =>
          /\ call'.ptr = NullNet
          /\ cn.old \notin net_alive'
          /\ ~IsKey(net_map_', cn.ws, cn.name)
          /\ GetNet(net_map_', cn.ws, cn.name) = NullNet]_vars
  /\ [][(call.op = "CreateNet.ret" /\ call.made = "null" /\ call.old # NullNet) =>
          /\ (call'.op = "GetNet" /\ GetNetCall(call.ws, call.name)) => call'.ptr = NullNet
          /\ \A result \in BOOLEAN :
               (call'.op = "RunNet" /\ RunNet(call.ws, call.name, result)) =>
                 ~call'.ok /\ call'.ran = NullNet /\ call'.thrown = ""]_vars

\* A CreateNet that replaced a net, built nothing, and returned null.
C18_Witness ==
  /\ call.op = "CreateNet.ret"
  /\ call.made = "null"
  /\ call.old # NullNet
  /\ call.ptr = NullNet
  /\ call.old \notin net_alive
  /\ ~IsKey(net_map_, call.ws, call.name)

\* C19: for every workspace and every name, GetBlob(name) is non-null exactly
\* when the name is in the list Blobs() returns, after any sequence of
\* CreateBlob and RemoveBlob calls on any workspace of the chain.
C19_ResolvableIffListed ==
  \A w \in Workspaces, n \in BlobNames :
    GetBlob(blob_map_, w, n) # NullBlob <=> Count(Blobs(blob_map_, w), n) >= 1

\* After a removal the removed name no longer resolves from the workspace, and
\* the deepest workspace resolves another name that only the root holds.
C19_Witness ==
  /\ call.op = "RemoveBlob"
  /\ call.ok
  /\ GetBlob(blob_map_, call.ws, call.name) = NullBlob
  /\ \E n \in BlobNames :
       /\ \A w \in Workspaces : IsKey(blob_map_, w, n) <=> w = 1
       /\ GetBlob(blob_map_, NumWs, n) # NullBlob

\* A lookup has just returned and left its name out of the registry.
AfterAbsentLookup ==
  \/ call.op = "RunNet" /\ call.thrown = "" /\ call.ran = NullNet
  \/ call.op = "DeleteNet"
  \/ call.op = "GetNet" /\ ~IsKey(net_map_, call.ws, call.name)

\* C20: GetNet(name), RunNet(name) and DeleteNet(name) on a name that is not
\* registered create no entry: the registry holds the same names and the same
\* instances afterwards, so a CreateNet(name) with overwrite = false that
\* follows is not refused.
C20_AbsentLookupsInsertNothing ==
  /\ [][\A w \in Workspaces, n \in NetNames :
          (/\ call'.op \in {"GetNet", "RunNet", "DeleteNet"}
           /\ call'.ws = w
           /\ call'.name = n
           /\ ~IsKey(net_map_, w, n)
           /\ (GetNetCall(w, n) \/ DeleteNet(w, n) \/ \E result \in BOOLEAN : RunNet(w, n, result))) =>
            /\ net_map_' = net_map_
            /\ net_alive' = net_alive
            /\ call'.ptr = NullNet
            /\ call'.ran = NullNet
            /\ ~call'.ok
            /\ call'.thrown = ""]_vars
  /\ [][(AfterAbsentLookup /\ call'.op = "CreateNet"
           /\ CreateNetBegin(call.ws, TRUE, call.name, FALSE)) =>
          call'.thrown = "" /\ pc' = "construct"]_vars

\* A GetNet of a name the workspace does not hold has returned null, while the
\* workspace holds a live net under another name.
C20_Witness ==
  /\ call.op = "GetNet"
  /\ call.ptr = NullNet
  /\ ~IsKey(net_map_, call.ws, call.name)
  /\ \E m \in NetNames : IsKey(net_map_, call.ws, m) /\ net_map_[call.ws][m] \in net_alive

====
